---- MODULE Spec2Model ----
(***************************************************************************)
(* Model of Launcher/src-tauri/src/main.rs: the process supervisor         *)
(* (launch / shutdown / terminate_process_tree over ServerState), the      *)
(* health poller (wait_for_health) and the update workflow                 *)
(* (update_vendor).                                                        *)
(*                                                                         *)
(* The tauri commands run as tasks of a multi-threaded tokio runtime, so   *)
(* every critical section of a std Mutex and every await is one step and   *)
(* steps of different tasks interleave freely.                             *)
(***************************************************************************)
EXTENDS Integers, Sequences, FiniteSets, TLC

\* ---------------------------------------------------------------- bounds
\* Server processes that may be spawned in one run.
MaxProcs == 2

\* The tasks of the runtime: two start_server invocations that may overlap
\* (each slot is reused by later invocations) and the task the CloseRequested
\* handler spawns.
LaunchTasks == {"start1", "start2"}
CloseTasks == {"close"}
Tasks == LaunchTasks \cup CloseTasks
Pids == 1..MaxProcs
\* Option::None of ServerState.child / ServerState.job and of a task's locals.
None == 0

VARIABLES
    platform,   \* "posix" | "windows": the cfg(windows) / cfg(not(windows)) build
    exited,     \* app.exit(0) has been called
    child,      \* ServerState.child: None or the pid of the tracked Child
    job,        \* ServerState.job (windows): None or the pid the job object holds
    procs,      \* pid -> [st, desc, sig]: the spawned server processes
    npid,       \* number of processes spawned so far
    pc,         \* task -> position in launch / shutdown
    result,     \* task -> value returned by launch ("none" while running)
    force,      \* launch task -> force_start
    mine,       \* launch task -> the local `child` spawned by this invocation
    ready,      \* launch task -> this invocation emitted "server-ready"
    taken,      \* task -> `child` local of shutdown (result of guard.take())
    tjob        \* task -> `job` local of shutdown (windows)

VARIABLES
    hpPc,       \* wait_for_health: "off" | "probe" | "sleep" | "done"
    hpK,        \* the server under test answers its hpK-th probe with success
    hpI,        \* the loop variable i
    hpProbes,   \* GET requests sent so far
    hpDelays,   \* the sleeps made so far, in ms
    hpRet       \* the value returned

VARIABLES
    uPc,        \* update_vendor: "idle" | "stash" | "pull" | "diff" | "log" | "done"
    uArg,       \* attempt_overwrite
    uAllow,     \* what the policy check of this call found ("unread": not reached)
    uStash,     \* the local stash_used
    uStashOut,  \* how `git stash` ended in this call ("none": not run)
    uGit,       \* the git subcommands this call has run
    uPullOut,   \* how `git pull` ended in this call ("none": not run)
    uPull,      \* pull_text
    uDiff,      \* diff_text
    uLog,       \* WTUpdate.log as this call left it ("none": untouched)
    uRet        \* what the call returned

VARIABLES
    niPc,       \* should_npm_install: "off" | "ask" | "told"
    niMode,     \* its argument mode
    niFs,       \* the state of the directory it looks at
    niOut,      \* the Result it returned
    niTouched   \* package-lock.json was written after the last install

VARIABLES
    dpPc,       \* determine_port: "off" | "idle" | "file" | "override" | "probe" | "done"
    dpFile,     \* SillyTavern/.env
    dpOverride, \* SERVER_PORT ("unset" or its text)
    dpBusy,     \* the fallback ports some process holds bound
    dpI,        \* index of the next fallback candidate
    dpProbes,   \* the results of is_port_available in this call, in order
    dpSeen,     \* ports a bind-check of this run found bound, not released since
    dpRet       \* what the call returned

VARIABLES
    lkPc,       \* task -> where it is between the lock() calls and the awaits
    lkHeld      \* "child" / "job" -> the task whose MutexGuard is alive, or "free"

VARIABLES
    lgPc,       \* reader -> "off" | "read" | "lock" | "line" | "newline" | "eof"
    lgLen,      \* reader -> number of lines its pipe will carry
    lgNext,     \* reader -> number of the line it is reading or appending
    lgHolder,   \* the reader holding the AsyncMutex of the log file, or "free"
    lgSink      \* the chunks written to the log file so far, in order

supVars == <<platform, exited, child, job, procs, npid, pc, result,
             force, mine, ready, taken, tjob>>
hpVars == <<hpPc, hpK, hpI, hpProbes, hpDelays, hpRet>>
updVars == <<uPc, uArg, uAllow, uStash, uStashOut, uGit, uPullOut, uPull, uDiff, uLog, uRet>>

lkVars == <<lkPc, lkHeld>>
lgVars == <<lgPc, lgLen, lgNext, lgHolder, lgSink>>
niVars == <<niPc, niMode, niFs, niOut, niTouched>>
dpVars == <<dpPc, dpFile, dpOverride, dpBusy, dpI, dpProbes, dpSeen, dpRet>>

vars == <<supVars, hpVars, updVars, niVars, dpVars, lkVars, lgVars>>

\* A process that was never spawned.
NoProc == [st |-> "none", desc |-> FALSE, sig |-> "none"]

\* std::process spawn of `node server.js`: the leader runs, has no descendant yet.
FreshProc == [st |-> "alive", desc |-> FALSE, sig |-> "none"]

SupInit ==
    /\ platform \in {"posix", "windows"}
    /\ exited = FALSE
    /\ child = None
    /\ job = None
    /\ procs = [p \in Pids |-> NoProc]
    /\ npid = 0
    /\ pc = [t \in Tasks |-> "idle"]
    /\ result = [t \in Tasks |-> "none"]
    /\ force = [t \in LaunchTasks |-> FALSE]
    /\ mine = [t \in LaunchTasks |-> None]
    /\ ready = [t \in LaunchTasks |-> FALSE]
    /\ taken = [t \in Tasks |-> None]
    /\ tjob = [t \in Tasks |-> None]

\* ------------------------------------------------------- the kernel's part
\* kill(-pid, SIGINT): the signal reaches the whole group; whether and when a
\* member exits on it is the member's choice (ProcExit, DescExit below).
SendInterrupt(ps, p) ==
    [ps EXCEPT ![p].sig = IF @ = "kill" THEN "kill" ELSE "int"]

\* kill(-pid, SIGKILL) on posix, TerminateJobObject or the close of the last
\* handle of a KILL_ON_JOB_CLOSE job on windows: every member dies.
KillTree(ps, p) ==
    [ps EXCEPT ![p] = [st |-> "dead", desc |-> FALSE, sig |-> "kill"]]

\* Child::kill() on windows: TerminateProcess of the tracked process alone.
KillLeader(ps, p) ==
    [ps EXCEPT ![p].st = "dead", ![p].sig = "kill"]

\* Drop of a JobHandle (CloseHandle): the job of process j, if any, goes away
\* and takes its members with it.
CloseJob(ps, j) == IF j = None THEN ps ELSE KillTree(ps, j)

\* The server process exits on its own (crash, or its reaction to SIGINT).
ProcExit(p) ==
    /\ procs[p].st = "alive"
    /\ procs' = [procs EXCEPT ![p].st = "dead"]
    /\ UNCHANGED <<hpVars, updVars, niVars, dpVars, lkVars, lgVars, platform, exited, child, job, npid, pc, result,
                   force, mine, ready, taken, tjob>>

\* The server forks a helper, which stays in its process group / job.
DescSpawn(p) ==
    /\ procs[p].st = "alive"
    /\ ~procs[p].desc
    /\ procs' = [procs EXCEPT ![p].desc = TRUE]
    /\ UNCHANGED <<hpVars, updVars, niVars, dpVars, lkVars, lgVars, platform, exited, child, job, npid, pc, result,
                   force, mine, ready, taken, tjob>>

DescExit(p) ==
    /\ procs[p].desc
    /\ procs' = [procs EXCEPT ![p].desc = FALSE]
    /\ UNCHANGED <<hpVars, updVars, niVars, dpVars, lkVars, lgVars, platform, exited, child, job, npid, pc, result,
                   force, mine, ready, taken, tjob>>

\* ------------------------------------------------------ should_npm_install
\* Largest modification time of the drawn filesystem states.
MaxTime == 2

\* RUN_NPM_INSTALL after trim and to_ascii_lowercase; "auto" is the default and
\* "yes" stands for any other text.
Modes == {"never", "always", "auto", "yes"}

\* node_modules exists, package-lock.json exists, their mtimes, and whether
\* fs::metadata / modified succeed.
FsStates ==
    [nm : BOOLEAN, lock : BOOLEAN, lm : 0..MaxTime, nmT : 0..MaxTime, meta : BOOLEAN]

\* The comparison of the two mtimes made with >= where the code has >.
ShouldNpmInstallNotOlder(mode, fs) ==
    IF mode = "never" THEN [err |-> FALSE, val |-> FALSE]
    ELSE IF mode = "always" THEN [err |-> FALSE, val |-> TRUE]
    ELSE IF ~fs.nm THEN [err |-> FALSE, val |-> TRUE]
    ELSE IF fs.lock
         THEN IF ~fs.meta THEN [err |-> TRUE, val |-> FALSE]
              ELSE [err |-> FALSE, val |-> fs.lm >= fs.nmT]
    ELSE [err |-> FALSE, val |-> FALSE]

\* Result<bool, String> as [err, val].
ShouldNpmInstall(mode, fs) ==
    IF mode = "never" THEN [err |-> FALSE, val |-> FALSE]
    ELSE IF mode = "always" THEN [err |-> FALSE, val |-> TRUE]
    ELSE IF ~fs.nm THEN [err |-> FALSE, val |-> TRUE]
    ELSE IF fs.lock
         THEN IF ~fs.meta THEN [err |-> TRUE, val |-> FALSE]
              ELSE [err |-> FALSE, val |-> fs.lm > fs.nmT]
    ELSE [err |-> FALSE, val |-> FALSE]

\* What should_npm_install can return to launch, over every mode and every
\* state of the directory.
InstallDecisions == {ShouldNpmInstall(mode, fs) : mode \in Modes, fs \in FsStates}

NoDecision == [err |-> FALSE, val |-> FALSE]

NiOff ==
    /\ niPc = "off"
    /\ niMode = "auto"
    /\ niFs = [nm |-> FALSE, lock |-> FALSE, lm |-> 0, nmT |-> 0, meta |-> TRUE]
    /\ niOut = NoDecision
    /\ niTouched = FALSE

\* let needs_npm_install = should_npm_install(&run_npm, &silly_dir)
NiDecide ==
    /\ niPc = "ask"
    /\ niOut' = ShouldNpmInstall(niMode, niFs)
    /\ niPc' = "told"
    /\ UNCHANGED <<supVars, hpVars, updVars, dpVars, lkVars, lgVars, niMode, niFs, niTouched>>

\* Someone writes package-lock.json (touch, git pull) at a time later than
\* the mtime node_modules has.
NiTouch ==
    /\ niPc \in {"ask", "told"}
    /\ \E t \in 0..MaxTime :
         /\ t > niFs.nmT
         /\ niFs.lock => t >= niFs.lm
         /\ niFs' = [niFs EXCEPT !.lock = TRUE, !.lm = t]
    /\ niTouched' = TRUE
    /\ niPc' = "ask"
    /\ niOut' = NoDecision
    /\ UNCHANGED <<supVars, hpVars, updVars, dpVars, lkVars, lgVars, niMode>>

\* npm install has run: node_modules is there, written no earlier than the
\* lock file.
NiInstalled ==
    /\ niPc \in {"ask", "told"}
    /\ \E t \in 0..MaxTime :
         /\ niFs.lock => t >= niFs.lm
         /\ niFs' = [niFs EXCEPT !.nm = TRUE, !.nmT = t]
    /\ niTouched' = FALSE
    /\ niPc' = "ask"
    /\ niOut' = NoDecision
    /\ UNCHANGED <<supVars, hpVars, updVars, dpVars, lkVars, lgVars, niMode>>

\* --------------------------------------------------------- wait_for_health
HealthAttempts == 30
HealthBaseDelay == 500
HealthDelayStep == 100

\* What wait_for_health returns against a server whose k-th probe is the first
\* to succeed (k = HealthAttempts + 1: none does).
WaitForHealth(k) == k <= HealthAttempts

\* The parts of the program that are not running.
HpOff ==
    /\ hpPc = "off"
    /\ hpK = 1
    /\ hpI = 0
    /\ hpProbes = 0
    /\ hpDelays = <<>>
    /\ hpRet = FALSE

\* A sleep that does not grow with the attempt.
HealthDelayFlat(i) == HealthBaseDelay

\* tokio::time::sleep(Duration::from_millis(500 + (i as u64) * 100))
HealthDelay(i) == HealthBaseDelay + i * HealthDelayStep

\* What client.get(url).send().await can give: Ok with a 2xx status, Ok with
\* another status, Err. The server answers 2xx from its hpK-th probe on.
ProbeOutcomes(k, n) ==
    IF n >= k THEN {"status_success"} ELSE {"status_other", "send_error"}

\* if let Ok(r) = client.get(url).send().await { if r.status().is_success() ..
ProbeHealthy(o) == o = "status_success"

\* One GET of the loop body: return true on success, else go on to the sleep.
HpProbe ==
    /\ hpPc = "probe"
    /\ hpProbes' = hpProbes + 1
    /\ \E o \in ProbeOutcomes(hpK, hpProbes + 1) :
         IF ProbeHealthy(o)
         THEN hpPc' = "done" /\ hpRet' = TRUE
         ELSE hpPc' = "sleep" /\ hpRet' = hpRet
    /\ UNCHANGED <<supVars, updVars, niVars, dpVars, lkVars, lgVars, hpK, hpI, hpDelays>>

\* The sleep that ends the loop body, then `for i in 0..30` steps; after the
\* last iteration the function returns false.
HpSleep ==
    /\ hpPc = "sleep"
    /\ hpDelays' = Append(hpDelays, HealthDelay(hpI))
    /\ hpI' = hpI + 1
    /\ IF hpI + 1 < HealthAttempts
       THEN hpPc' = "probe" /\ hpRet' = hpRet
       ELSE hpPc' = "done" /\ hpRet' = FALSE
    /\ UNCHANGED <<supVars, updVars, niVars, dpVars, lkVars, lgVars, hpK, hpProbes>>

\* ------------------------------------------------------------------ launch
\* A task returns r to its caller. "ErrIo" stands for every Err(String) that
\* wraps a failure of the OS or of a tool (node or npm not found, a command
\* that cannot be started, no port, no log file): they differ in their text
\* only.
Return(t, r) ==
    /\ pc' = [pc EXCEPT ![t] = "done"]
    /\ result' = [result EXCEPT ![t] = r]

\* launch without its already-running check.
LaunchCheckAbsent(t) ==
    /\ pc' = [pc EXCEPT ![t] = "prep"]
    /\ UNCHANGED result

\* if state.child.lock().unwrap().is_some() { return Ok(()) }
LaunchCheck(t) ==
    IF child # None
    THEN Return(t, "Ok")
    ELSE /\ pc' = [pc EXCEPT ![t] = "prep"]
         /\ UNCHANGED result

\* start_server -> launch: load_env(); silly_dir()? (the directory is there or
\* not when the call looks), then the already-running check.
LaunchBegin(t) ==
    /\ pc[t] = "idle"
    /\ ~exited
    /\ \E dirExists \in BOOLEAN :
         IF dirExists THEN LaunchCheck(t) ELSE Return(t, "ErrDir")
    /\ UNCHANGED <<hpVars, updVars, niVars, dpVars, lkVars, lgVars, platform, exited, child, job, procs, npid,
                   force, mine, ready, taken, tjob>>

\* An install branch that does not look at force_start.
InstallBranchUnforced(needs, f) == IF needs THEN "install" ELSE "start"

\* if needs_npm_install { if force_start { skip } else { install } }
InstallBranch(needs, f) == IF needs /\ ~f THEN "install" ELSE "start"

\* should_npm_install(..)?; ensure_command("node").await?; then the install
\* branch is entered only if needs_npm_install and not force_start. The
\* force_start argument is first read here, so the model draws it here.
LaunchPrep(t) ==
    /\ pc[t] = "prep"
    /\ \E needs \in InstallDecisions, nodeOk \in BOOLEAN, f \in BOOLEAN :
         IF needs.err THEN Return(t, "ErrConfig") /\ UNCHANGED force
         ELSE IF ~nodeOk THEN Return(t, "ErrIo") /\ UNCHANGED force
         ELSE /\ pc' = [pc EXCEPT ![t] = InstallBranch(needs.val, f)]
              /\ force' = [force EXCEPT ![t] = f]
              /\ UNCHANGED result
    /\ UNCHANGED <<hpVars, updVars, niVars, dpVars, lkVars, lgVars, platform, exited, child, job, procs, npid,
                   mine, ready, taken, tjob>>

\* The Outputs npm is drawn with: a good run, a failed one that printed
\* nothing but a blank, a failed one that wrote to both streams.
NpmOutputs ==
    {[code |-> 0, stdout |-> "up to date ", stderr |-> ""],
     [code |-> 1, stdout |-> "", stderr |-> " "],
     [code |-> 1, stdout |-> "up to date ", stderr |-> "npm ERR! E404 "]}

\* str::trim on the texts format!("{}{}", stdout, stderr) can be.
TrimOutput(text) ==
    CASE text = "" -> ""
      [] text = " " -> ""
      [] text = "up to date " -> "up to date"
      [] text = "up to date npm ERR! E404 " -> "up to date npm ERR! E404"

\* An Err of a failed install without the tag.
InstallErrorUntagged(o) == "npm install failed. Check logs for details."

\* The Err of a failed install: the tag, then the trimmed combined output or,
\* when that is empty, a pointer to the logs.
InstallError(o) ==
    IF TrimOutput(o.stdout \o o.stderr) = ""
    THEN "NPM_INSTALL_FAILED::npm install failed. Check logs for details."
    ELSE "NPM_INSTALL_FAILED::npm install failed. Details: "
             \o TrimOutput(o.stdout \o o.stderr)

\* output.status.success()
StatusSuccess(o) == o.code = 0

\* locate_npm(app).await?; cmd.output().await.map_err(..)?: npm is not found,
\* cannot be started, or runs to its end; then the branch on its status.
LaunchInstall(t) ==
    /\ pc[t] = "install"
    /\ \/ Return(t, "ErrIo")
       \/ \E o \in NpmOutputs :
             /\ pc' = [pc EXCEPT ![t] =
                         IF StatusSuccess(o) THEN "start" ELSE "install_failed"]
             /\ UNCHANGED result
    /\ UNCHANGED <<hpVars, updVars, niVars, dpVars, lkVars, lgVars, platform, exited, child, job, procs, npid,
                   force, mine, ready, taken, tjob>>

\* if !output.status.success() { log_line(app, trimmed).await;
\* return Err("NPM_INSTALL_FAILED::..") }: what the failed run had printed is
\* drawn here, where it is used.
LaunchInstallFailed(t) ==
    /\ pc[t] = "install_failed"
    /\ \E o \in {x \in NpmOutputs : ~StatusSuccess(x)} : Return(t, InstallError(o))
    /\ UNCHANGED <<hpVars, updVars, niVars, dpVars, lkVars, lgVars, platform, exited, child, job, procs, npid,
                   force, mine, ready, taken, tjob>>

\* determine_port(..)?; create_dir_all(logs)?; open(log)?; cmd.spawn()?
\* force_start is not read after the install branch: the model forgets it here.
StartOutcomes == {"port_failed", "io_failed", "spawn_failed", "ok"}

\* A launch that goes from the spawn straight to the health poll.
AfterSpawnUnstored(pf) == "health"

\* After cmd.spawn(): the job object on cfg(windows), then the readers and
\* state.child...replace(child).
AfterSpawn(pf) == IF pf = "windows" THEN "job" ELSE "store"

LaunchStart(t) ==
    /\ pc[t] = "start"
    /\ \E o \in StartOutcomes :
         CASE o = "port_failed" ->
                Return(t, "ErrIo") /\ UNCHANGED <<procs, npid, mine>>
           [] o = "io_failed" ->
                Return(t, "ErrIo") /\ UNCHANGED <<procs, npid, mine>>
           [] o = "spawn_failed" ->
                Return(t, "ErrIo") /\ UNCHANGED <<procs, npid, mine>>
           [] o = "ok" ->
                /\ npid < MaxProcs
                /\ npid' = npid + 1
                /\ procs' = [procs EXCEPT ![npid + 1] = FreshProc]
                /\ mine' = [mine EXCEPT ![t] = npid + 1]
                /\ pc' = [pc EXCEPT ![t] = AfterSpawn(platform)]
                /\ UNCHANGED result
    /\ force' = [force EXCEPT ![t] = FALSE]
    /\ UNCHANGED <<hpVars, updVars, niVars, dpVars, lkVars, lgVars, platform, exited, child, job, ready, taken, tjob>>

\* cfg(windows): CreateJobObjectW / SetInformationJobObject / OpenProcess /
\* AssignProcessToJobObject, each with `?`, then job.lock().replace(job).
\* On an error the function returns and its local `child` is dropped; a tokio
\* Child without kill_on_drop leaves the process running. The replaced
\* JobHandle is dropped, which closes the old job.
LaunchJob(t) ==
    /\ pc[t] = "job"
    /\ \E ok \in BOOLEAN :
         IF ok
         THEN /\ procs' = CloseJob(procs, job)
              /\ job' = mine[t]
              /\ pc' = [pc EXCEPT ![t] = "store"]
              /\ UNCHANGED result
         ELSE /\ Return(t, "ErrJob")
              /\ UNCHANGED <<procs, job>>
    /\ UNCHANGED <<hpVars, updVars, niVars, dpVars, lkVars, lgVars, platform, exited, child, npid,
                   force, mine, ready, taken, tjob>>

\* state.child.lock().unwrap().replace(child): a Child that was in the slot is
\* dropped, its process keeps running.
LaunchStore(t) ==
    /\ pc[t] = "store"
    /\ child' = mine[t]
    /\ pc' = [pc EXCEPT ![t] = "health"]
    /\ UNCHANGED <<hpVars, updVars, niVars, dpVars, lkVars, lgVars, platform, exited, job, procs, npid, result,
                   force, mine, ready, taken, tjob>>

\* An emit that does not depend on the outcome of the poll.
EmitsReadyAlways(healthy) == TRUE

\* app.emit("server-ready", &url) sits in the true arm of
\* `if wait_for_health(&url).await` only.
EmitsReady(healthy) == healthy

\* if wait_for_health(&url).await { emit("server-ready"); Ok(()) }
\* else { shutdown(..).await; Err(message) }
LaunchHealth(t) ==
    /\ pc[t] = "health"
    /\ \E healthy \in {WaitForHealth(k) : k \in 1..(HealthAttempts + 1)} :
         /\ ready' = [ready EXCEPT ![t] = EmitsReady(healthy)]
         /\ IF healthy
            THEN Return(t, "Ok")
            ELSE /\ pc' = [pc EXCEPT ![t] = "sd_take"]
                 /\ UNCHANGED result
    /\ UNCHANGED <<hpVars, updVars, niVars, dpVars, lkVars, lgVars, platform, exited, child, job, procs, npid,
                   force, mine, taken, tjob>>

\* The caller has its result; the task slot is free for the next invocation.
LaunchAck(t) ==
    /\ pc[t] = "done"
    /\ t \in LaunchTasks
    /\ pc' = [pc EXCEPT ![t] = "idle"]
    /\ result' = [result EXCEPT ![t] = "none"]
    /\ force' = [force EXCEPT ![t] = FALSE]
    /\ mine' = [mine EXCEPT ![t] = None]
    /\ ready' = [ready EXCEPT ![t] = FALSE]
    /\ taken' = [taken EXCEPT ![t] = None]
    /\ tjob' = [tjob EXCEPT ![t] = None]
    /\ UNCHANGED <<hpVars, updVars, niVars, dpVars, lkVars, lgVars, platform, exited, child, job, procs, npid>>

\* ---------------------------------------------------------------- shutdown
\* on_window_event(CloseRequested): prevent_close(), then a spawned task runs
\* shutdown(state).await; app.exit(0).
CloseBegin(t) ==
    /\ pc[t] = "idle"
    /\ t \in CloseTasks
    /\ ~exited
    /\ pc' = [pc EXCEPT ![t] = "sd_take"]
    /\ UNCHANGED <<hpVars, updVars, niVars, dpVars, lkVars, lgVars, platform, exited, child, job, procs, npid, result,
                   force, mine, ready, taken, tjob>>

\* shutdown returns to its caller, its locals are gone: launch goes on to
\* Err(message), the close handler to app.exit(0).
ShutdownReturn(t) ==
    /\ taken' = [taken EXCEPT ![t] = None]
    /\ tjob' = [tjob EXCEPT ![t] = None]
    /\ IF t \in LaunchTasks
       THEN Return(t, "ErrHealth") /\ UNCHANGED exited
       ELSE Return(t, "Exit") /\ exited' = TRUE

\* shutdown reading the slot where it should take from it.
ShutdownTakePeek(t) ==
    /\ pc[t] = "sd_take"
    /\ child' = child
    /\ IF platform = "windows" \/ child # None
       THEN /\ taken' = [taken EXCEPT ![t] = child]
            /\ pc' = [pc EXCEPT ![t] =
                        IF platform = "windows" THEN "sd_job" ELSE "sd_int"]
            /\ UNCHANGED <<result, exited, tjob>>
       ELSE ShutdownReturn(t)
    /\ UNCHANGED <<hpVars, updVars, niVars, dpVars, lkVars, lgVars, platform, job, procs, npid, force, mine, ready>>

\* let child = { state.child.lock().unwrap().take() }; with no child on
\* cfg(not(windows)) the function is over.
ShutdownTake(t) ==
    /\ pc[t] = "sd_take"
    /\ child' = None
    /\ IF platform = "windows" \/ child # None
       THEN /\ taken' = [taken EXCEPT ![t] = child]
            /\ pc' = [pc EXCEPT ![t] =
                        IF platform = "windows" THEN "sd_job" ELSE "sd_int"]
            /\ UNCHANGED <<result, exited, tjob>>
       ELSE ShutdownReturn(t)
    /\ UNCHANGED <<hpVars, updVars, niVars, dpVars, lkVars, lgVars, platform, job, procs, npid, force, mine, ready>>

\* cfg(windows): let job = { state.job.lock().unwrap().take() }; then
\* terminate_process_tree(child, job) up to its first await
\* (TerminateJobObject, or Child::kill without a job), or drop(job) when no
\* child was tracked.
ShutdownJob(t) ==
    /\ pc[t] = "sd_job"
    /\ job' = None
    /\ IF taken[t] # None
       THEN /\ procs' = IF job # None THEN KillTree(procs, job)
                        ELSE KillLeader(procs, taken[t])
            /\ tjob' = [tjob EXCEPT ![t] = job]
            /\ pc' = [pc EXCEPT ![t] = "sd_wait"]
            /\ UNCHANGED <<result, exited, taken>>
       ELSE /\ procs' = CloseJob(procs, job)
            /\ ShutdownReturn(t)
    /\ UNCHANGED <<hpVars, updVars, niVars, dpVars, lkVars, lgVars, platform, child, npid, force, mine, ready>>

\* cfg(not(windows)): libc::kill(-pid, SIGINT). child.id() is Some: the handle
\* was never awaited before.
ShutdownInterrupt(t) ==
    /\ pc[t] = "sd_int"
    /\ procs' = SendInterrupt(procs, taken[t])
    /\ pc' = [pc EXCEPT ![t] = "sd_wait10"]
    /\ UNCHANGED <<hpVars, updVars, niVars, dpVars, lkVars, lgVars, platform, exited, child, job, npid, result,
                   force, mine, ready, taken, tjob>>

\* timeout(10 s, child.wait()) is Ok(Ok(_)): the child exited in time.
ShutdownWaitOk(t) ==
    /\ pc[t] = "sd_wait10"
    /\ procs[taken[t]].st = "dead"
    /\ ShutdownReturn(t)
    /\ UNCHANGED <<hpVars, updVars, niVars, dpVars, lkVars, lgVars, platform, child, job, procs, npid, force, mine, ready>>

\* timeout(10 s, child.wait()) is Ok(Err(_)): the wait failed in the OS within
\* the 10 s, whatever the child is doing; the arm is empty.
ShutdownWaitErr(t) ==
    /\ pc[t] = "sd_wait10"
    /\ ShutdownReturn(t)
    /\ UNCHANGED <<hpVars, updVars, niVars, dpVars, lkVars, lgVars, platform, child, job, procs, npid, force, mine, ready>>

\* The 10 s taken as over whether or not the child has exited.
TimedOutAnyway(ps, p) == TRUE

\* timeout(..) is Err(_): the 10 s are over and child.wait() has not completed.
TimedOut(ps, p) == ps[p].st = "alive"

\* SIGINT sent again where the SIGKILL is due.
EscalateInterrupt(ps, p) == SendInterrupt(ps, p)

\* What the expiry of the 10 s does to the group: libc::kill(-pid, SIGKILL).
Escalate(ps, p) == KillTree(ps, p)

\* timeout(10 s, child.wait()) is Err(_): the child has not exited.
ShutdownTimeout(t) ==
    /\ pc[t] = "sd_wait10"
    /\ TimedOut(procs, taken[t])
    /\ procs' = Escalate(procs, taken[t])
    /\ pc' = [pc EXCEPT ![t] = "sd_wait"]
    /\ UNCHANGED <<hpVars, updVars, niVars, dpVars, lkVars, lgVars, platform, exited, child, job, npid, result,
                   force, mine, ready, taken, tjob>>

\* let _ = child.wait().await; the last statement of terminate_process_tree on
\* both platforms (on windows the job handle is dropped after it).
ShutdownWait(t) ==
    /\ pc[t] = "sd_wait"
    /\ procs[taken[t]].st = "dead"
    /\ procs' = IF platform = "windows" THEN CloseJob(procs, tjob[t]) ELSE procs
    /\ ShutdownReturn(t)
    /\ UNCHANGED <<hpVars, updVars, niVars, dpVars, lkVars, lgVars, platform, child, job, npid, force, mine, ready>>

\* ----------------------------------------------------------- update_vendor
\* Texts git may print (stdout followed by stderr), with str::trim and
\* str::to_lowercase tabulated over them.
PullTexts ==
    {"", " \n", "Already up to date.\n", "ALREADY UP TO DATE\n",
     "Updating 1a2b3c..4d5e6f\n", "error: would be overwritten by merge\n"}
DiffTexts == {"", "\n", " a.js | 2 +-\n"}

Trim(s) ==
    CASE s = "" -> ""
      [] s = " \n" -> ""
      [] s = "\n" -> ""
      [] s = "Already up to date.\n" -> "Already up to date."
      [] s = "ALREADY UP TO DATE\n" -> "ALREADY UP TO DATE"
      [] s = "Updating 1a2b3c..4d5e6f\n" -> "Updating 1a2b3c..4d5e6f"
      [] s = "error: would be overwritten by merge\n"
            -> "error: would be overwritten by merge"
      [] s = " a.js | 2 +-\n" -> "a.js | 2 +-"

ToLowercase(s) ==
    CASE s = "Already up to date.\n" -> "already up to date.\n"
      [] s = "ALREADY UP TO DATE\n" -> "already up to date\n"
      [] s = "Updating 1a2b3c..4d5e6f\n" -> "updating 1a2b3c..4d5e6f\n"
      [] OTHER -> s

\* lower.contains("already up to date")
ContainsUpToDate(lower) ==
    lower \in {"already up to date.\n", "already up to date\n"}

\* The log with its two sections in the other order.
LogContentsDiffFirst(pull, diff) ==
    <<"Git diff --compact-summary:\n">>
    \o (IF Trim(diff) = "" THEN <<"No differences.\n">> ELSE <<Trim(diff), "\n">>)
    \o <<"\ngit pull output:\n",
         IF Trim(pull) = "" THEN "(no output)" ELSE Trim(pull)>>

\* write_update_log: the contents, as the pieces pushed onto the String.
LogContents(pull, diff) ==
    <<"git pull output:\n",
      IF Trim(pull) = "" THEN "(no output)" ELSE Trim(pull),
      "\n\nGit diff --compact-summary:\n">>
    \o (IF Trim(diff) = "" THEN <<"No differences.\n">> ELSE <<Trim(diff), "\n">>)

\* `combined`, then `diff: if combined.is_empty() { None } else { Some(..) }`;
\* <<>> stands for None.
Combined(pull, diff) ==
    (IF Trim(pull) = "" THEN <<>> ELSE <<Trim(pull)>>)
    \o (IF Trim(diff) # "" /\ Trim(pull) # "" THEN <<"\n\n">> ELSE <<>>)
    \o (IF Trim(diff) # "" THEN <<Trim(diff)>> ELSE <<>>)

\* Result<UpdateResponse, String>; log_path is whether it is Some.
NoRet ==
    [kind |-> "none", status |-> "none", stash_used |-> FALSE,
     log_path |-> FALSE, diff |-> <<>>, log_contents |-> <<>>]
ErrRet(msg) == [NoRet EXCEPT !.kind = "err", !.status = msg]
OkRet(status, stash, logged, diff, contents) ==
    [kind |-> "ok", status |-> status, stash_used |-> stash,
     log_path |-> logged, diff |-> diff, log_contents |-> contents]

NoLog == [st |-> "untouched", text |-> <<>>]

UpdOff ==
    /\ uPc = "off"
    /\ uArg = FALSE
    /\ uAllow = "unread"
    /\ uStash = FALSE
    /\ uStashOut = "none"
    /\ uGit = <<>>
    /\ uPullOut = "none"
    /\ uPull = ""
    /\ uDiff = ""
    /\ uLog = NoLog
    /\ uRet = NoRet

UReturn(r) ==
    /\ uPc' = "done"
    /\ uRet' = r

\* run_git(..).await: Err when git cannot be spawned, else the exit status.
GitOutcomes == {"spawn_failed", "nonzero", "ok"}

\* load_env(); silly_dir()?; vendor_dir()?; the policy check; the branch on
\* attempt_overwrite.
UpdateEntries == {"no_dir", "no_vendor", "policy_off", "allowed"}

\* The policy looked at only on the path that does not stash.
AfterPolicyLate(allowed, ow) ==
    IF ow THEN "stash" ELSE IF ~allowed THEN "done" ELSE "pull"

\* if !allow_git_pull_in_app() { return Ok(UpToDate ..) }, else the branch on
\* attempt_overwrite: where update_vendor is after the policy check.
AfterPolicy(allowed, ow) ==
    IF ~allowed THEN "done" ELSE IF ow THEN "stash" ELSE "pull"

UBegin ==
    /\ uPc = "idle"
    /\ \E ow \in BOOLEAN, e \in UpdateEntries :
         /\ uArg' = ow
         /\ CASE e = "no_dir" -> UReturn(ErrRet("config")) /\ UNCHANGED uAllow
              [] e = "no_vendor" -> UReturn(ErrRet("vendor")) /\ UNCHANGED uAllow
              [] OTHER ->
                   /\ uAllow' = IF e = "allowed" THEN "allowed" ELSE "denied"
                   /\ uPc' = AfterPolicy(e = "allowed", ow)
                   /\ uRet' = IF AfterPolicy(e = "allowed", ow) = "done"
                              THEN OkRet("UpToDate", FALSE, FALSE, <<>>, <<>>)
                              ELSE uRet
    /\ UNCHANGED <<supVars, hpVars, niVars, dpVars, lkVars, lgVars, uStash, uStashOut, uGit, uPullOut, uPull, uDiff, uLog>>

\* A failed stash that is not looked at: stash_used is set and the pull runs.
AfterStashUnchecked(o) ==
    IF o = "spawn_failed"
    THEN [pc |-> "done", used |-> FALSE, ret |-> ErrRet("io")]
    ELSE [pc |-> "pull", used |-> TRUE, ret |-> NoRet]

\* What follows `git stash`: the `?` on a spawn error, the early Err on a
\* non-zero exit, else stash_used = true and on to the pull.
AfterStash(o) ==
    CASE o = "spawn_failed" -> [pc |-> "done", used |-> FALSE, ret |-> ErrRet("io")]
      [] o = "nonzero" ->
           [pc |-> "done", used |-> FALSE, ret |-> ErrRet("git stash failed")]
      [] o = "ok" -> [pc |-> "pull", used |-> TRUE, ret |-> NoRet]

UStashStep ==
    /\ uPc = "stash"
    /\ uGit' = Append(uGit, "stash")
    /\ \E o \in GitOutcomes :
         /\ uStashOut' = o
         /\ uPc' = AfterStash(o).pc
         /\ uStash' = AfterStash(o).used
         /\ uRet' = AfterStash(o).ret
    /\ UNCHANGED <<supVars, hpVars, niVars, dpVars, lkVars, lgVars, uArg, uAllow, uPullOut, uPull, uDiff, uLog>>

\* if lower.contains("already up to date") { UpToDate } else { Success }
PullStatus(text) ==
    IF ContainsUpToDate(ToLowercase(text)) THEN "UpToDate" ELSE "Success"

UPullStep ==
    /\ uPc = "pull"
    /\ uGit' = Append(uGit, "pull")
    /\ \E o \in GitOutcomes, text \in PullTexts :
         /\ uPullOut' = o
         /\ CASE o = "spawn_failed" -> UReturn(ErrRet("io")) /\ UNCHANGED uPull
              [] o = "ok" ->
                   /\ uPull' = text
                   /\ UReturn(OkRet(PullStatus(text), uStash, FALSE, <<>>, <<>>))
              [] o = "nonzero" ->
                   /\ uPull' = text
                   /\ uPc' = "diff"
                   /\ UNCHANGED uRet
    /\ UNCHANGED <<supVars, hpVars, niVars, dpVars, lkVars, lgVars, uArg, uAllow, uStash, uStashOut, uDiff, uLog>>

\* run_git(&repo, &["diff", "--compact-summary"]).await?; its exit status is
\* not looked at.
UDiffStep ==
    /\ uPc = "diff"
    /\ uGit' = Append(uGit, "diff")
    /\ \E o \in GitOutcomes, text \in DiffTexts :
         IF o = "spawn_failed"
         THEN UReturn(ErrRet("io")) /\ UNCHANGED uDiff
         ELSE /\ uDiff' = text
              /\ uPc' = "log"
              /\ UNCHANGED uRet
    /\ UNCHANGED <<supVars, hpVars, niVars, dpVars, lkVars, lgVars, uArg, uAllow, uStash, uStashOut, uPullOut, uPull, uLog>>

\* The two failure statuses exchanged.
FailureStatusSwapped(ow) == IF ow THEN "NeedRetry" ELSE "Failed"

\* status: if attempt_overwrite { Failed } else { NeedRetry }
FailureStatus(ow) == IF ow THEN "Failed" ELSE "NeedRetry"

\* write_update_log(..).await?: File::create may fail; after it the file is
\* truncated and write_all / flush may fail. Then the response.
LogOutcomes == {"create_failed", "write_failed", "ok"}

ULogStep ==
    /\ uPc = "log"
    /\ \E o \in LogOutcomes :
         CASE o = "create_failed" -> UReturn(ErrRet("io")) /\ UNCHANGED uLog
           [] o = "write_failed" ->
                /\ UReturn(ErrRet("io"))
                /\ uLog' = [st |-> "truncated", text |-> <<>>]
           [] o = "ok" ->
                /\ uLog' = [st |-> "written", text |-> LogContents(uPull, uDiff)]
                /\ UReturn(OkRet(FailureStatus(uArg), uStash, TRUE,
                                 Combined(uPull, uDiff), LogContents(uPull, uDiff)))
    /\ UNCHANGED <<supVars, hpVars, niVars, dpVars, lkVars, lgVars, uArg, uAllow, uStash, uStashOut, uGit, uPullOut, uPull, uDiff>>

\* The caller has the result; the command can be invoked again.
UAck ==
    /\ uPc = "done"
    /\ uPc' = "idle"
    /\ uArg' = FALSE
    /\ uAllow' = "unread"
    /\ uStash' = FALSE
    /\ uStashOut' = "none"
    /\ uGit' = <<>>
    /\ uPullOut' = "none"
    /\ uPull' = ""
    /\ uDiff' = ""
    /\ uLog' = NoLog
    /\ uRet' = NoRet
    /\ UNCHANGED <<supVars, hpVars, niVars, dpVars, lkVars, lgVars>>

\* ---------------------------------------------------------- determine_port
\* Lines a .env file is drawn with, at most.
MaxEntries == 2

\* const FALLBACK_PORTS: &[u16] = &[8000, 8080, 3000, 5173];
FALLBACK_PORTS == <<8000, 8080, 3000, 5173>>

FallbackSet == {FALLBACK_PORTS[i] : i \in 1..Len(FALLBACK_PORTS)}

\* Texts a port setting may hold.
PortTexts == {"8000", " 9000 ", "0", "abc", "70000", ""}

\* parse_port: trim, None when empty, parse::<u16>() (70000 overflows), None
\* for 0. Option<u16> as the number, None for None: Some(0) never comes out.
parse_port(value) ==
    CASE value = "8000" -> 8000
      [] value = " 9000 " -> 9000
      [] value = "0" -> None
      [] value = "abc" -> None
      [] value = "70000" -> None
      [] value = "" -> None

\* What from_path_iter yields per line: a PORT or ST_PORT pair, a pair with
\* another key (or one that is not UTF-8, skipped alike), or a parse error.
EnvEntries ==
    [key : {"PORT", "ST_PORT"}, val : PortTexts]
        \cup {[key |-> "OTHER", val |-> "abc"], [key |-> "malformed", val |-> ""]}

\* SillyTavern/.env: not there, there but from_path_iter fails, or its lines.
EnvFiles ==
    {[st |-> "absent", entries |-> <<>>], [st |-> "unreadable", entries |-> <<>>]}
        \cup {[st |-> "lines", entries |-> es] :
                 es \in UNION {[1..n -> EnvEntries] : n \in 0..MaxEntries}}

\* The for loop of silly_env_port from entry i on: the `?` on a line that does
\* not parse, else the last valid PORT and the last valid ST_PORT.
RECURSIVE ScanEnv(_, _, _, _)
ScanEnv(es, i, port, st_port) ==
    IF i > Len(es) THEN [err |-> FALSE, port |-> port, st_port |-> st_port]
    ELSE IF es[i].key = "malformed"
         THEN [err |-> TRUE, port |-> port, st_port |-> st_port]
    ELSE IF es[i].key = "PORT" /\ parse_port(es[i].val) # None
         THEN ScanEnv(es, i + 1, parse_port(es[i].val), st_port)
    ELSE IF es[i].key = "ST_PORT" /\ parse_port(es[i].val) # None
         THEN ScanEnv(es, i + 1, port, parse_port(es[i].val))
    ELSE ScanEnv(es, i + 1, port, st_port)

\* silly_env_port: Result<Option<u16>, String> as [err, port]; port.or(st_port).
silly_env_port(file) ==
    IF file.st = "absent" THEN [err |-> FALSE, port |-> None]
    ELSE IF file.st = "unreadable" THEN [err |-> TRUE, port |-> None]
    ELSE LET r == ScanEnv(file.entries, 1, None, None)
         IN  [err |-> r.err,
              port |-> IF r.err THEN None
                       ELSE IF r.port # None THEN r.port ELSE r.st_port]

\* A probe that binds nothing and calls every port free.
is_port_available_unprobed(busy, port) == port # 0

\* is_port_available: false for 0, else whether TcpListener::bind succeeds;
\* the listener is dropped in the same expression.
is_port_available(busy, port) == port # 0 /\ port \notin busy

NoPort == [kind |-> "none", port |-> None]

NoEnvFile == [st |-> "absent", entries |-> <<>>]

DpOff ==
    /\ dpPc = "off"
    /\ dpFile = NoEnvFile
    /\ dpOverride = "unset"
    /\ dpBusy = {}
    /\ dpI = 1
    /\ dpProbes = <<>>
    /\ dpSeen = {}
    /\ dpRet = NoPort

DpReturn(r) ==
    /\ dpPc' = "done"
    /\ dpRet' = r

\* if let Some(port) = silly_env_port(silly_dir)? { return Ok(port) }
DpFileStep ==
    /\ dpPc = "file"
    /\ IF silly_env_port(dpFile).err THEN DpReturn([kind |-> "err", port |-> None])
       ELSE IF silly_env_port(dpFile).port # None
            THEN DpReturn([kind |-> "ok", port |-> silly_env_port(dpFile).port])
       ELSE dpPc' = "override" /\ UNCHANGED dpRet
    /\ UNCHANGED <<supVars, hpVars, updVars, niVars, lkVars, lgVars,
                   dpFile, dpOverride, dpBusy, dpI, dpProbes, dpSeen>>

\* env::var("SERVER_PORT").ok().and_then(|value| parse_port(&value))
DpOverrideStep ==
    /\ dpPc = "override"
    /\ IF dpOverride # "unset" /\ parse_port(dpOverride) # None
       THEN DpReturn([kind |-> "ok", port |-> parse_port(dpOverride)])
       ELSE dpPc' = "probe" /\ UNCHANGED dpRet
    /\ UNCHANGED <<supVars, hpVars, updVars, niVars, lkVars, lgVars,
                   dpFile, dpOverride, dpBusy, dpI, dpProbes, dpSeen>>

\* One turn of `for candidate in FALLBACK_PORTS`; after the last one the Err.
DpProbeStep ==
    /\ dpPc = "probe"
    /\ LET candidate == FALLBACK_PORTS[dpI]
           free == is_port_available(dpBusy, candidate)
       IN  /\ dpProbes' = Append(dpProbes, [port |-> candidate, free |-> free])
           /\ dpSeen' = IF candidate \in dpBusy THEN dpSeen \cup {candidate} ELSE dpSeen
           /\ IF free THEN DpReturn([kind |-> "ok", port |-> candidate]) /\ UNCHANGED dpI
              ELSE IF dpI = Len(FALLBACK_PORTS)
                   THEN DpReturn([kind |-> "err", port |-> None]) /\ UNCHANGED dpI
              ELSE dpI' = dpI + 1 /\ UNCHANGED <<dpPc, dpRet>>
    /\ UNCHANGED <<supVars, hpVars, updVars, niVars, lkVars, lgVars, dpFile, dpOverride, dpBusy>>

\* launch calls determine_port: the .env is as the user last left it.
\* SERVER_PORT is the process's own and stays from call to call, and so does
\* dpSeen, the ports a bind check of this run found bound and nobody let go
\* since.
DpCall ==
    /\ dpPc = "idle"
    /\ dpPc' = "file"
    /\ dpFile' \in EnvFiles
    /\ UNCHANGED <<supVars, hpVars, updVars, niVars, lkVars, lgVars,
                   dpOverride, dpBusy, dpI, dpProbes, dpSeen, dpRet>>

\* The call is over and its result used; the launcher is between two launches.
DpLeave ==
    /\ dpPc = "done"
    /\ dpPc' = "idle"
    /\ dpFile' = NoEnvFile
    /\ dpI' = 1
    /\ dpProbes' = <<>>
    /\ dpRet' = NoPort
    /\ UNCHANGED <<supVars, hpVars, updVars, niVars, lkVars, lgVars, dpOverride, dpBusy, dpSeen>>

\* Another process binds a fallback port, or lets one go, between two probes
\* or between two calls.
DpBind(p) ==
    /\ dpPc \in {"probe", "idle"}
    /\ p \notin dpBusy
    /\ dpBusy' = dpBusy \cup {p}
    /\ UNCHANGED <<supVars, hpVars, updVars, niVars, lkVars, lgVars,
                   dpPc, dpFile, dpOverride, dpI, dpProbes, dpSeen, dpRet>>

DpRelease(p) ==
    /\ dpPc \in {"probe", "idle"}
    /\ p \in dpBusy
    /\ dpBusy' = dpBusy \ {p}
    /\ dpSeen' = dpSeen \ {p}
    /\ UNCHANGED <<supVars, hpVars, updVars, niVars, lkVars, lgVars,
                   dpPc, dpFile, dpOverride, dpI, dpProbes, dpRet>>

\* ------------------------------------------------- the guards of ServerState
\* launch and shutdown reduced to their lock() calls on ServerState.child and
\* ServerState.job, the ends of the scopes of the guards, and their awaits.
Locks == {"child", "job"}

\* Positions at which a task is parked in an await: log_line, the subprocess
\* and file waits before the store, wait_for_health, terminate_process_tree.
AwaitPositions == {"l_log", "l_work", "l_health", "s_term"}

\* Positions whose next statement is a lock() call, with the mutex it is on.
Wanted(pos) ==
    CASE pos \in {"l_check_lock", "l_store_lock", "s_take_lock"} -> "child"
      [] pos \in {"l_job_lock", "s_job_lock"} -> "job"
      [] OTHER -> "none"

LkOff ==
    /\ lkPc = [t \in Tasks |-> "off"]
    /\ lkHeld = [l \in Locks |-> "free"]

\* A guard that outlives the expression or block it was made in.
KeepGuard(held, l) == held

\* The MutexGuard goes out of scope: the temporary at the end of the `if`
\* condition or of the statement, the local `guard` at the end of its block.
DropGuard(held, l) == [held EXCEPT ![l] = "free"]

\* std::sync::Mutex::lock(): returns once nobody holds the mutex.
LkLock(t, from, to) ==
    /\ lkPc[t] = from
    /\ lkHeld[Wanted(from)] = "free"
    /\ lkHeld' = [lkHeld EXCEPT ![Wanted(from)] = t]
    /\ lkPc' = [lkPc EXCEPT ![t] = to]

\* The use of the guard (is_some, replace, take) up to the end of its scope.
LkUnlock(t, from, l, tos) ==
    /\ lkPc[t] = from
    /\ lkHeld' = DropGuard(lkHeld, l)
    /\ \E to \in tos : lkPc' = [lkPc EXCEPT ![t] = to]

\* An await completes and the task runs on.
LkResume(t, from, tos) ==
    /\ lkPc[t] = from
    /\ \E to \in tos : lkPc' = [lkPc EXCEPT ![t] = to]
    /\ UNCHANGED lkHeld

\* start_server -> launch, or the close handler -> shutdown.
LkInvoke(t) ==
    /\ LkResume(t, "idle", IF t \in LaunchTasks THEN {"l_check_lock"} ELSE {"s_take_lock"})
    /\ UNCHANGED <<supVars, hpVars, updVars, niVars, dpVars, lgVars>>
\* if state.inner().child.lock().unwrap().is_some() { log_line(..).await; .. }
LkCheckLock(t) ==
    /\ LkLock(t, "l_check_lock", "l_check")
    /\ UNCHANGED <<supVars, hpVars, updVars, niVars, dpVars, lgVars>>
LkChecked(t) ==
    /\ LkUnlock(t, "l_check", "child", {"l_log", "l_work"})
    /\ UNCHANGED <<supVars, hpVars, updVars, niVars, dpVars, lgVars>>
LkLogged(t) ==
    /\ LkResume(t, "l_log", {"idle"})
    /\ UNCHANGED <<supVars, hpVars, updVars, niVars, dpVars, lgVars>>
\* The awaits from ensure_command to spawn: an error returns, else the job
\* object on cfg(windows) (an error returns there too), else the store.
LkWorked(t) ==
    /\ LkResume(t, "l_work",
                IF platform = "windows" THEN {"idle", "l_job_lock"}
                ELSE {"idle", "l_store_lock"})
    /\ UNCHANGED <<supVars, hpVars, updVars, niVars, dpVars, lgVars>>
\* state.inner().job.lock().unwrap().replace(job);
LkJobLock(t) ==
    /\ LkLock(t, "l_job_lock", "l_job")
    /\ UNCHANGED <<supVars, hpVars, updVars, niVars, dpVars, lgVars>>
LkJobReplaced(t) ==
    /\ LkUnlock(t, "l_job", "job", {"l_store_lock"})
    /\ UNCHANGED <<supVars, hpVars, updVars, niVars, dpVars, lgVars>>
\* state.inner().child.lock().unwrap().replace(child); wait_for_health(..).await
LkStoreLock(t) ==
    /\ LkLock(t, "l_store_lock", "l_store")
    /\ UNCHANGED <<supVars, hpVars, updVars, niVars, dpVars, lgVars>>
LkStored(t) ==
    /\ LkUnlock(t, "l_store", "child", {"l_health"})
    /\ UNCHANGED <<supVars, hpVars, updVars, niVars, dpVars, lgVars>>
\* Healthy: Ok(()). Not healthy: shutdown(..).await.
LkPolled(t) ==
    /\ LkResume(t, "l_health", {"idle", "s_take_lock"})
    /\ UNCHANGED <<supVars, hpVars, updVars, niVars, dpVars, lgVars>>
\* let child = { let mut guard = ..child.lock().unwrap(); guard.take() };
LkTakeLock(t) ==
    /\ LkLock(t, "s_take_lock", "s_take")
    /\ UNCHANGED <<supVars, hpVars, updVars, niVars, dpVars, lgVars>>
\* With no child on cfg(not(windows)) shutdown is over at once.
LkTaken(t) ==
    /\ LkUnlock(t, "s_take", "child",
                IF platform = "windows" THEN {"s_job_lock"} ELSE {"s_term", "idle"})
    /\ UNCHANGED <<supVars, hpVars, updVars, niVars, dpVars, lgVars>>
\* cfg(windows): let job = { let mut guard = ..job.lock().unwrap(); guard.take() };
LkJobTakeLock(t) ==
    /\ LkLock(t, "s_job_lock", "s_job")
    /\ UNCHANGED <<supVars, hpVars, updVars, niVars, dpVars, lgVars>>
LkJobTaken(t) ==
    /\ LkUnlock(t, "s_job", "job", {"s_term", "idle"})
    /\ UNCHANGED <<supVars, hpVars, updVars, niVars, dpVars, lgVars>>
\* terminate_process_tree(..).await is over.
LkTerminated(t) ==
    /\ LkResume(t, "s_term", {"idle"})
    /\ UNCHANGED <<supVars, hpVars, updVars, niVars, dpVars, lgVars>>
\* ------------------------------------------------------------- append_log
\* The two reader tasks of one launch and the log file they share.
Readers == {"stdout", "stderr"}

\* Lines a pipe carries, at most.
MaxLines == 2

\* What BufReader::lines() yields on each pipe, the terminator stripped.
StreamLines ==
    [r \in Readers |-> [i \in 1..MaxLines |-> r \o " " \o ToString(i)]]

LgOff ==
    /\ lgPc = [r \in Readers |-> "off"]
    /\ lgLen = [r \in Readers |-> 0]
    /\ lgNext = [r \in Readers |-> 1]
    /\ lgHolder = "free"
    /\ lgSink = <<>>

\* A file lock that anybody gets at any time.
FileLockOpen(holder) == TRUE

\* tokio::sync::Mutex::lock().await completes once nobody holds the mutex.
FileLockFree(holder) == holder = "free"

\* while let Ok(Some(line)) = reader.next_line().await
LgRead(r) ==
    /\ lgPc[r] = "read"
    /\ lgPc' = [lgPc EXCEPT ![r] = IF lgNext[r] <= lgLen[r] THEN "lock" ELSE "eof"]
    /\ UNCHANGED <<supVars, hpVars, updVars, niVars, dpVars, lkVars,
                   lgLen, lgNext, lgHolder, lgSink>>

\* let mut f = file.lock().await;
LgLock(r) ==
    /\ lgPc[r] = "lock"
    /\ FileLockFree(lgHolder)
    /\ lgHolder' = r
    /\ lgPc' = [lgPc EXCEPT ![r] = "line"]
    /\ UNCHANGED <<supVars, hpVars, updVars, niVars, dpVars, lkVars,
                   lgLen, lgNext, lgSink>>

\* let _ = f.write_all(line.as_bytes()).await;
LgWriteLine(r) ==
    /\ lgPc[r] = "line"
    /\ lgSink' = Append(lgSink, StreamLines[r][lgNext[r]])
    /\ lgPc' = [lgPc EXCEPT ![r] = "newline"]
    /\ UNCHANGED <<supVars, hpVars, updVars, niVars, dpVars, lkVars,
                   lgLen, lgNext, lgHolder>>

\* let _ = f.write_all(b"\n").await; app.emit("log", ..); Ok(()): the guard
\* f is dropped on return and the reader asks for its next line.
LgWriteNewline(r) ==
    /\ lgPc[r] = "newline"
    /\ lgSink' = Append(lgSink, "\n")
    /\ lgHolder' = IF lgHolder = r THEN "free" ELSE lgHolder
    /\ lgNext' = [lgNext EXCEPT ![r] = @ + 1]
    /\ lgPc' = [lgPc EXCEPT ![r] = "read"]
    /\ UNCHANGED <<supVars, hpVars, updVars, niVars, dpVars, lkVars, lgLen>>

\* ------------------------------------------------------------- the program
Init == SupInit /\ HpOff /\ UpdOff /\ NiOff /\ DpOff /\ LkOff /\ LgOff

Next ==
    \/ \E t \in LaunchTasks : LaunchBegin(t)
    \/ \E t \in LaunchTasks : LaunchPrep(t)
    \/ \E t \in LaunchTasks : LaunchInstall(t)
    \/ \E t \in LaunchTasks : LaunchInstallFailed(t)
    \/ \E t \in LaunchTasks : LaunchStart(t)
    \/ \E t \in LaunchTasks : LaunchJob(t)
    \/ \E t \in LaunchTasks : LaunchStore(t)
    \/ \E t \in LaunchTasks : LaunchHealth(t)
    \/ \E t \in LaunchTasks : LaunchAck(t)
    \/ \E t \in CloseTasks : CloseBegin(t)
    \/ \E t \in Tasks : ShutdownTake(t)
    \/ \E t \in Tasks : ShutdownJob(t)
    \/ \E t \in Tasks : ShutdownInterrupt(t)
    \/ \E t \in Tasks : ShutdownWaitOk(t)
    \/ \E t \in Tasks : ShutdownWaitErr(t)
    \/ \E t \in Tasks : ShutdownTimeout(t)
    \/ \E t \in Tasks : ShutdownWait(t)
    \/ \E p \in Pids : ProcExit(p)
    \/ \E p \in Pids : DescSpawn(p)
    \/ \E p \in Pids : DescExit(p)

Spec == Init /\ [][Next]_vars

\* The commands invoked one after the other: an invocation begins only when no
\* other one is running.
Quiet == \A u \in Tasks : pc[u] \in {"idle", "done"}

NextSeq ==
    \/ \E t \in LaunchTasks : Quiet /\ LaunchBegin(t)
    \/ \E t \in LaunchTasks : LaunchPrep(t)
    \/ \E t \in LaunchTasks : LaunchInstall(t)
    \/ \E t \in LaunchTasks : LaunchInstallFailed(t)
    \/ \E t \in LaunchTasks : LaunchStart(t)
    \/ \E t \in LaunchTasks : LaunchJob(t)
    \/ \E t \in LaunchTasks : LaunchStore(t)
    \/ \E t \in LaunchTasks : LaunchHealth(t)
    \/ \E t \in LaunchTasks : LaunchAck(t)
    \/ \E t \in CloseTasks : Quiet /\ CloseBegin(t)
    \/ \E t \in Tasks : ShutdownTake(t)
    \/ \E t \in Tasks : ShutdownJob(t)
    \/ \E t \in Tasks : ShutdownInterrupt(t)
    \/ \E t \in Tasks : ShutdownWaitOk(t)
    \/ \E t \in Tasks : ShutdownWaitErr(t)
    \/ \E t \in Tasks : ShutdownTimeout(t)
    \/ \E t \in Tasks : ShutdownWait(t)
    \/ \E p \in Pids : ProcExit(p)
    \/ \E p \in Pids : DescSpawn(p)
    \/ \E p \in Pids : DescExit(p)

SeqSpec == Init /\ [][NextSeq]_vars

\* wait_for_health alone, against every server the loop can tell apart.
HealthInit ==
    /\ SupInit /\ platform = "posix"
    /\ UpdOff /\ NiOff /\ DpOff /\ LkOff /\ LgOff
    /\ hpPc = "probe"
    /\ hpK \in 1..(HealthAttempts + 1)
    /\ hpI = 0
    /\ hpProbes = 0
    /\ hpDelays = <<>>
    /\ hpRet = FALSE

HealthNext == HpProbe \/ HpSleep

HealthSpec == HealthInit /\ [][HealthNext]_vars

\* update_vendor alone, invoked again and again.
UpdateInit ==
    /\ SupInit /\ platform = "posix"
    /\ HpOff /\ NiOff /\ DpOff /\ LkOff /\ LgOff
    /\ uPc = "idle"
    /\ uArg = FALSE
    /\ uAllow = "unread"
    /\ uStash = FALSE
    /\ uStashOut = "none"
    /\ uGit = <<>>
    /\ uPullOut = "none"
    /\ uPull = ""
    /\ uDiff = ""
    /\ uLog = NoLog
    /\ uRet = NoRet

UpdateNext == UBegin \/ UStashStep \/ UPullStep \/ UDiffStep \/ ULogStep \/ UAck

UpdateSpec == UpdateInit /\ [][UpdateNext]_vars

\* should_npm_install alone, over every mode and every state of the directory,
\* with the directory changing between calls.
InstallInit ==
    /\ SupInit /\ platform = "posix"
    /\ HpOff /\ UpdOff /\ DpOff /\ LkOff /\ LgOff
    /\ niPc = "ask"
    /\ niMode \in Modes
    /\ niFs \in FsStates
    /\ niOut = NoDecision
    /\ niTouched = FALSE

InstallNext == NiDecide \/ NiTouch \/ NiInstalled

InstallSpec == InstallInit /\ [][InstallNext]_vars

\* determine_port alone, over every .env file, every SERVER_PORT and every
\* set of fallback ports in use.
PortInit ==
    /\ SupInit /\ platform = "posix"
    /\ HpOff /\ UpdOff /\ NiOff /\ LkOff /\ LgOff
    /\ dpPc = "idle"
    /\ dpFile = NoEnvFile
    /\ dpOverride \in {"unset"} \cup PortTexts
    /\ dpBusy \in SUBSET FallbackSet
    /\ dpI = 1
    /\ dpProbes = <<>>
    /\ dpSeen = {}
    /\ dpRet = NoPort

PortNext ==
    \/ DpCall
    \/ DpFileStep
    \/ DpOverrideStep
    \/ DpProbeStep
    \/ DpLeave
    \/ \E p \in FallbackSet : DpBind(p)
    \/ \E p \in FallbackSet : DpRelease(p)

PortSpec == PortInit /\ [][PortNext]_vars

\* The lock() calls and awaits of overlapping launches and a close.
LockInit ==
    /\ SupInit
    /\ HpOff /\ UpdOff /\ NiOff /\ DpOff /\ LgOff
    /\ lkPc = [t \in Tasks |-> "idle"]
    /\ lkHeld = [l \in Locks |-> "free"]

LockNext ==
    \/ \E t \in Tasks : LkInvoke(t)
    \/ \E t \in Tasks : LkCheckLock(t)
    \/ \E t \in Tasks : LkChecked(t)
    \/ \E t \in Tasks : LkLogged(t)
    \/ \E t \in Tasks : LkWorked(t)
    \/ \E t \in Tasks : LkJobLock(t)
    \/ \E t \in Tasks : LkJobReplaced(t)
    \/ \E t \in Tasks : LkStoreLock(t)
    \/ \E t \in Tasks : LkStored(t)
    \/ \E t \in Tasks : LkPolled(t)
    \/ \E t \in Tasks : LkTakeLock(t)
    \/ \E t \in Tasks : LkTaken(t)
    \/ \E t \in Tasks : LkJobTakeLock(t)
    \/ \E t \in Tasks : LkJobTaken(t)
    \/ \E t \in Tasks : LkTerminated(t)

LockSpec == LockInit /\ [][LockNext]_vars

\* The stdout reader and the stderr reader of one server, each with a pipe
\* of up to MaxLines lines.
LogInit ==
    /\ SupInit /\ platform = "posix"
    /\ HpOff /\ UpdOff /\ NiOff /\ DpOff /\ LkOff
    /\ lgPc = [r \in Readers |-> "read"]
    /\ lgLen \in [Readers -> 0..MaxLines]
    /\ lgNext = [r \in Readers |-> 1]
    /\ lgHolder = "free"
    /\ lgSink = <<>>

LogNext ==
    \/ \E r \in Readers : LgRead(r)
    \/ \E r \in Readers : LgLock(r)
    \/ \E r \in Readers : LgWriteLine(r)
    \/ \E r \in Readers : LgWriteNewline(r)

LogSpec == LogInit /\ [][LogNext]_vars

\* The runtime keeps polling a task that can run, a timer fires, the kernel
\* delivers a signal: a step of shutdown that is enabled is taken. Nothing
\* obliges a server to exit, or a caller to invoke a command.
InShutdown(t) == pc[t] \in {"sd_take", "sd_job", "sd_int", "sd_wait10", "sd_wait"}

ShutdownStep(t) ==
    \/ ShutdownTake(t)
    \/ ShutdownJob(t)
    \/ ShutdownInterrupt(t)
    \/ ShutdownWaitOk(t)
    \/ ShutdownWaitErr(t)
    \/ ShutdownTimeout(t)
    \/ ShutdownWait(t)

LiveSpec == Spec /\ \A t \in Tasks : WF_vars(ShutdownStep(t))

\* ------------------------------------------------------------- properties
\* Task t takes its first step of launch in this step.
Invoked(t) == pc[t] = "idle" /\ pc'[t] # "idle"

\* Task t returns from its shutdown in this step.
ShutdownReturns(t) == InShutdown(t) /\ pc'[t] = "done"

\* A launch that succeeded and stored its child, which is still the tracked one.
StartedAndTracked ==
    \E u \in LaunchTasks :
        /\ pc[u] = "done"
        /\ result[u] = "Ok"
        /\ mine[u] # None
        /\ child = mine[u]

\* C1 (as amended): a start invoked while a child is tracked returns at once,
\* spawning nothing, installing nothing and leaving ServerState and the
\* processes as they were; it returns Ok, unless SILLYTAVERN_DIR does not
\* resolve any more, which is found before the tracked child is looked at and
\* returns the configuration error.
C1_SecondStartNoOp ==
    [][\A t \in LaunchTasks :
          (Invoked(t) /\ child # None) =>
              /\ pc'[t] = "done"
              /\ result'[t] \in {"Ok", "ErrDir"}
              /\ mine'[t] = None
              /\ <<child, job, procs, npid>>' = <<child, job, procs, npid>>]_vars

\* C1 (as stated): after a start that succeeded and stored its child, a second
\* start with no stop in between returns Ok as a no-op.
C1_SecondStartReturnsOk ==
    [][\A t \in LaunchTasks :
          (Invoked(t) /\ StartedAndTracked) =>
              /\ pc'[t] = "done"
              /\ result'[t] = "Ok"
              /\ mine'[t] = None
              /\ <<child, job, procs, npid>>' = <<child, job, procs, npid>>]_vars

\* A second start has returned Ok without spawning while the first one's child
\* is tracked.
C1_Witness ==
    \E t, u \in LaunchTasks :
        /\ t # u
        /\ pc[u] = "done" /\ result[u] = "Ok" /\ mine[u] # None /\ child = mine[u]
        /\ pc[t] = "done" /\ result[t] = "Ok" /\ mine[t] = None

\* C2: under every interleaving of start_server invocations at most one server
\* process spawned by the launcher is alive.
C2_AtMostOneLiveChild ==
    Cardinality({p \in Pids : procs[p].st = "alive"}) <= 1

C4_UnhealthyServerNotLeftRunning ==
    \A t \in LaunchTasks :
        (pc[t] = "done" /\ result[t] = "ErrHealth") =>
            \/ procs[mine[t]].st = "dead"
            \/ \E u \in Tasks : InShutdown(u) /\ taken[u] = mine[t]

\* C5: when the POSIX shutdown of a tracked child returns, the child and every
\* descendant in its process group are gone.
C5_StopKillsWholeGroup ==
    [][\A t \in Tasks :
          (platform = "posix" /\ ShutdownReturns(t) /\ taken[t] # None) =>
              /\ procs'[taken[t]].st = "dead"
              /\ ~procs'[taken[t]].desc]_vars

\* C6: when the job-object setup fails after the spawn, launch returns the
\* error with the spawned process stored in ServerState.child.
C6_JobFailureKeepsChild ==
    [][\A t \in LaunchTasks :
          (pc[t] = "job" /\ pc'[t] = "done" /\ result'[t] = "ErrJob") =>
              child' = mine[t]]_vars

\* C7: every invocation of shutdown returns.
C7_ShutdownReturns ==
    \A t \in Tasks : InShutdown(t) ~> pc[t] = "done"

\* A shutdown has returned after it had to escalate to the kill.
C7_Witness ==
    \E t \in Tasks, p \in Pids :
        /\ pc[t] = "done"
        /\ result[t] \in {"ErrHealth", "Exit"}
        /\ procs[p].sig = "kill"
        /\ procs[p].st = "dead"

\* C8: against a server whose hpK-th probe is the first to succeed,
\* wait_for_health returns true after exactly hpK probes when hpK <= 30 and
\* false, after 30 probes, otherwise; it never sends a 31st probe; the sleep
\* after failed attempt i (from 0) is 500 + 100 * i ms, so the sleeps never
\* shrink.
C8_HealthPoll ==
    /\ hpProbes <= 30
    /\ \A j \in 1..Len(hpDelays) : hpDelays[j] = 500 + 100 * (j - 1)
    /\ \A j \in 1..(Len(hpDelays) - 1) : hpDelays[j] <= hpDelays[j + 1]
    /\ hpPc = "done" =>
          /\ hpRet = (hpK <= 30)
          /\ hpRet = WaitForHealth(hpK)
          /\ hpRet => (hpProbes = hpK /\ Len(hpDelays) = hpK - 1)
          /\ ~hpRet => hpProbes = 30

\* The poll has returned true at the fifth probe, after four growing sleeps.
C8_Witness ==
    /\ hpPc = "done"
    /\ hpRet
    /\ hpK = 5
    /\ hpProbes = 5
    /\ hpDelays = <<500, 600, 700, 800>>

\* C9: NeedRetry is returned only by update_vendor(false); Failed only by
\* update_vendor(true), after its `git stash` exited with success, and then
\* with stash_used true.
C9_FailureStatuses ==
    (uPc = "done" /\ uRet.kind = "ok") =>
        /\ uRet.status = "NeedRetry" => ~uArg
        /\ uRet.status = "Failed" =>
              /\ uArg
              /\ uStashOut = "ok"
              /\ uGit[1] = "stash"
              /\ uRet.stash_used

\* update_vendor(true) has returned Failed after a stash that succeeded.
C9_Witness ==
    /\ uPc = "done"
    /\ uRet.kind = "ok"
    /\ uRet.status = "Failed"
    /\ uArg
    /\ uStashOut = "ok"
    /\ uRet.stash_used

\* C10: when the `git stash` of update_vendor(true) exits non-zero the call
\* is over with Err: no pull and no diff is run, WTUpdate.log is not touched,
\* and stash_used is not set.
C10_StashFailureIsHardError ==
    uStashOut = "nonzero" =>
        /\ uArg
        /\ uPc = "done"
        /\ uRet.kind = "err"
        /\ uGit = <<"stash">>
        /\ uLog = NoLog
        /\ ~uStash

\* update_vendor(true) has returned the error of a stash that exited non-zero.
C10_Witness ==
    /\ uArg
    /\ uStashOut = "nonzero"
    /\ uPc = "done"
    /\ uRet = ErrRet("git stash failed")

PullSucceededOutcome ==
    (uPc = "done" /\ uPullOut = "ok") =>
        /\ uRet.kind = "ok"
        /\ uRet.status =
              IF uPull \in {"Already up to date.\n", "ALREADY UP TO DATE\n"}
              THEN "UpToDate" ELSE "Success"
        /\ ~uRet.log_path
        /\ uRet.log_contents = <<>>
        /\ uLog = NoLog
        /\ uGit[Len(uGit)] = "pull"

\* The response that follows a written log: NeedRetry or Failed, a log path,
\* and the text of the file, which has "git pull output:" and then
\* "Git diff --compact-summary:" as the headers of its two sections.
LoggedFailureOutcome ==
    /\ uRet.kind = "ok"
    /\ uRet.status \in {"NeedRetry", "Failed"}
    /\ uRet.log_path
    /\ uLog.st = "written"
    /\ uRet.log_contents = uLog.text
    /\ Len(uRet.log_contents) >= 4
    /\ uRet.log_contents[1] = "git pull output:\n"
    /\ uRet.log_contents[3] = "\n\nGit diff --compact-summary:\n"
    /\ uGit[Len(uGit)] = "diff"

\* C12 (as amended): WTUpdate.log is touched only after a pull that exited
\* non-zero; a pull that succeeded returns UpToDate or Success with no log;
\* a pull that failed runs the diff and, provided git can be spawned for the
\* diff and the log file can be created and written, returns NeedRetry or
\* Failed with the log path and the log text under its two headers; if the
\* diff cannot be spawned or the file cannot be written the call returns Err
\* and no complete log exists.
C12_LogIffPullFailed ==
    /\ uLog # NoLog => uPullOut = "nonzero"
    /\ PullSucceededOutcome
    /\ (uPc = "done" /\ uPullOut = "nonzero") =>
          /\ uGit[Len(uGit)] = "diff"
          /\ uRet.kind = "ok" => LoggedFailureOutcome
          /\ uRet.kind = "err" => uLog.st # "written"
          /\ uRet.kind \in {"ok", "err"}

\* C12 (as stated): the log is written if and only if the pull exits
\* non-zero, and every failing pull returns NeedRetry or Failed with the log.
C12_EveryFailedPullLogged ==
    /\ uLog # NoLog => uPullOut = "nonzero"
    /\ PullSucceededOutcome
    /\ (uPc = "done" /\ uPullOut = "nonzero") => LoggedFailureOutcome

\* A failed pull has been logged and answered with NeedRetry.
C12_Witness ==
    /\ uPc = "done"
    /\ uPullOut = "nonzero"
    /\ uPull = "error: would be overwritten by merge\n"
    /\ uRet.kind = "ok"
    /\ uRet.status = "NeedRetry"
    /\ uRet.log_path
    /\ uLog.st = "written"
    /\ uRet.log_contents =
          <<"git pull output:\n", "error: would be overwritten by merge",
            "\n\nGit diff --compact-summary:\n", "a.js | 2 +-", "\n">>

\* C13: should_npm_install follows the decision table: "never" gives false
\* and "always" true whatever the directory holds; any other mode gives true
\* when node_modules does not exist, else, with a package-lock.json whose
\* mtime can be read, true exactly when that mtime is strictly later than the
\* one of node_modules, else false; so a lock file written after an install
\* makes the answer true again. The call errs only when node_modules and the
\* lock file exist and an mtime cannot be read.
C13_InstallDecisionTable ==
    niPc = "told" =>
        /\ niMode = "never" => niOut = [err |-> FALSE, val |-> FALSE]
        /\ niMode = "always" => niOut = [err |-> FALSE, val |-> TRUE]
        /\ niMode \notin {"never", "always"} =>
              /\ ~niFs.nm => niOut = [err |-> FALSE, val |-> TRUE]
              /\ (niFs.nm /\ ~niFs.lock) => niOut = [err |-> FALSE, val |-> FALSE]
              /\ (niFs.nm /\ niFs.lock /\ niFs.meta) =>
                    niOut = [err |-> FALSE, val |-> niFs.lm > niFs.nmT]
              /\ (niTouched /\ ~niOut.err) => niOut.val
        /\ niOut.err =>
              (niMode \notin {"never", "always"} /\ niFs.nm /\ niFs.lock /\ ~niFs.meta)

\* In mode auto the answer is true for a lock file written after the install
\* that left node_modules.
C13_Witness ==
    /\ niPc = "told"
    /\ niMode = "auto"
    /\ niTouched
    /\ niFs.nm /\ niFs.lock /\ niFs.meta
    /\ niFs.lm = 2 /\ niFs.nmT = 1
    /\ niOut = [err |-> FALSE, val |-> TRUE]

\* The valid values the lines of the .env file hold under one key.
KeyPorts(key) ==
    {parse_port(dpFile.entries[i].val) :
        i \in {j \in DOMAIN dpFile.entries : dpFile.entries[j].key = key}} \ {None}

\* The valid SERVER_PORT, if there is one.
OverridePort == IF dpOverride = "unset" THEN None ELSE parse_port(dpOverride)

\* The probes went down the fallback list in order and all but the last one
\* found nothing to bind.
ProbedInOrder ==
    /\ Len(dpProbes) <= Len(FALLBACK_PORTS)
    /\ \A i \in DOMAIN dpProbes : dpProbes[i].port = FALLBACK_PORTS[i]
    /\ \A i \in DOMAIN dpProbes : i < Len(dpProbes) => ~dpProbes[i].free

\* What the precedence asks of a finished determine_port.
PrecedenceKept ==
    /\ dpRet.kind = "ok" => dpRet.port # 0
    /\ IF KeyPorts("PORT") # {}
       THEN dpRet.kind = "ok" /\ dpRet.port \in KeyPorts("PORT")
       ELSE IF KeyPorts("ST_PORT") # {}
       THEN dpRet.kind = "ok" /\ dpRet.port \in KeyPorts("ST_PORT")
       ELSE IF OverridePort # None
       THEN dpRet.kind = "ok" /\ dpRet.port = OverridePort
       ELSE /\ dpProbes # <<>>
            /\ ProbedInOrder
            /\ IF dpProbes[Len(dpProbes)].free
               THEN dpRet = [kind |-> "ok", port |-> dpProbes[Len(dpProbes)].port]
               ELSE dpRet.kind = "err" /\ Len(dpProbes) = Len(FALLBACK_PORTS)

\* C14: determine_port follows a strict precedence: a valid PORT of the
\* app's .env, else a valid ST_PORT there, else a valid SERVER_PORT, else the
\* first of 8000, 8080, 3000, 5173 that binds; 0 and text that is no number
\* are never returned, and it fails only when no tier yields a port.
C14_PortPrecedence ==
    dpPc = "done" => PrecedenceKept

\* C15: a port determine_port takes from the fallback list is never one that a
\* bind check of this run found bound and that has not been let go since.
\* A port of the .env file or of SERVER_PORT is returned with no bind check.
C15_FallbackPortNotSeenBound ==
    (dpPc = "done" /\ dpRet.kind = "ok" /\ dpProbes # <<>>)
        => (dpRet.port \notin dpSeen /\ dpRet.port \notin dpBusy)

\* C15 as it is worded, for whichever tier supplies the port.
C15_NoPortSeenBound ==
    (dpPc = "done" /\ dpRet.kind = "ok") => dpRet.port \notin dpSeen

\* C15: 8000 was probed and found bound, nobody let it go, and the call
\* went on to return 8080.
C15_Witness ==
    /\ dpPc = "done"
    /\ Len(dpProbes) = 2
    /\ ~dpProbes[1].free
    /\ dpProbes[1].port \in dpSeen
    /\ dpRet = [kind |-> "ok", port |-> FALLBACK_PORTS[2]]

\* C16: on posix SIGKILL goes to the group only from a stop that has sent
\* SIGINT and whose 10 s wait ran out with the child not exited; a stop that
\* leaves the 10 s wait because the child exited or the wait failed sends
\* nothing, and nothing is sent to that group afterwards; a stop that has
\* sent SIGKILL returns only once the child has exited.
C16_KillOnlyAfterTimeout ==
    [][platform = "posix" =>
          /\ \A p \in Pids :
                (procs[p].sig # "kill" /\ procs'[p].sig = "kill") =>
                    \E t \in Tasks :
                        /\ pc[t] = "sd_wait10" /\ taken[t] = p
                        /\ procs[p].sig = "int" /\ procs[p].st = "alive"
                        /\ pc'[t] = "sd_wait"
          /\ \A t \in Tasks :
                (pc[t] = "sd_wait10" /\ pc'[t] \notin {"sd_wait10", "sd_wait"}) =>
                    /\ procs'[taken[t]].sig = "int"
                    /\ taken'[t] = None
          /\ \A p \in Pids :
                (procs[p].sig = "int" /\ \A t \in Tasks : taken[t] # p) =>
                    (procs'[p].sig = "int" /\ \A t \in Tasks : taken'[t] # p)
          /\ \A t \in Tasks :
                (pc[t] = "sd_wait" /\ pc'[t] # "sd_wait") =>
                    procs[taken[t]].st = "dead"]_vars

\* C16: a stop has sent SIGINT, then SIGKILL after the 10 s, and is in its
\* last wait, while another process was stopped by SIGINT alone.
C16_Witness ==
    /\ platform = "posix"
    /\ \E t \in Tasks :
          /\ pc[t] = "sd_wait"
          /\ procs[taken[t]].sig = "kill"
          /\ \E q \in Pids : q # taken[t] /\ procs[q].sig = "int"

\* The phase of the launch attempt of task t, read off its position.
Phase(t) ==
    CASE pc[t] \in {"idle", "prep"} -> "Idle"
      [] pc[t] \in {"install", "install_failed"} -> "Installing"
      [] pc[t] \in {"start", "job", "store"} -> "Starting"
      [] pc[t] = "health" -> "Running"
      [] InShutdown(t) -> "Terminating"
      [] pc[t] = "done" -> IF ready[t] THEN "HealthConfirmed" ELSE "Idle"

\* The same after the step.
PhaseNext(t) ==
    CASE pc'[t] \in {"idle", "prep"} -> "Idle"
      [] pc'[t] \in {"install", "install_failed"} -> "Installing"
      [] pc'[t] \in {"start", "job", "store"} -> "Starting"
      [] pc'[t] = "health" -> "Running"
      [] pc'[t] \in {"sd_take", "sd_job", "sd_int", "sd_wait10", "sd_wait"}
            -> "Terminating"
      [] pc'[t] = "done" -> IF ready'[t] THEN "HealthConfirmed" ELSE "Idle"

\* The order of the phases; an attempt that fails before the health poll
\* goes from Installing or Starting back to Idle with its error, and a failed
\* health poll is the step from Running to Terminating.
PhaseOrder ==
    {<<"Idle", "Installing">>, <<"Idle", "Starting">>,
     <<"Installing", "Starting">>, <<"Installing", "Idle">>,
     <<"Starting", "Running">>, <<"Starting", "Idle">>,
     <<"Running", "HealthConfirmed">>, <<"Running", "Terminating">>,
     <<"Terminating", "Idle">>, <<"HealthConfirmed", "Idle">>}

\* C17: a launch attempt goes through Idle, Installing (optional), Starting,
\* Running, HealthConfirmed or HealthFailed, Terminating and back to Idle in
\* that order; the server is spawned only after the install was skipped or
\* ended with exit code 0; the health poll begins only on the step that has
\* stored the child handle; and ServerState.child goes from a child to None
\* only in the take of a shutdown.
C17_PhaseOrder ==
    [][/\ \A t \in LaunchTasks :
            /\ Phase(t) # PhaseNext(t) => <<Phase(t), PhaseNext(t)>> \in PhaseOrder
            /\ (pc[t] # "start" /\ pc'[t] = "start") => pc[t] \in {"prep", "install"}
            /\ pc[t] = "install_failed" => pc'[t] \in {"install_failed", "done"}
            /\ mine'[t] \notin {mine[t], None} => pc[t] = "start"
            /\ (pc[t] # "health" /\ pc'[t] = "health") =>
                    (pc[t] = "store" /\ mine[t] # None /\ child' = mine[t])
       /\ (child # None /\ child' = None) =>
            \E u \in Tasks : pc[u] = "sd_take" /\ taken'[u] = child]_vars

\* C17: an attempt that installed, spawned, stored and polled without success
\* is terminating the server it took out of the slot.
C17_Witness ==
    \E t \in LaunchTasks :
        /\ pc[t] = "sd_wait"
        /\ mine[t] # None
        /\ taken[t] = mine[t]
        /\ child = None

\* C20: when npm install ends with a non-zero exit code, launch returns the
\* error tagged NPM_INSTALL_FAILED with the trimmed stdout followed by stderr
\* (or the pointer to the logs when that is empty); it has spawned nothing
\* and polled nothing, and ServerState is as it was, with no child tracked.
C20_InstallFailureStopsLaunch ==
    [][\A t \in LaunchTasks :
          (pc[t] = "install_failed" /\ pc'[t] # "install_failed") =>
              /\ pc'[t] = "done"
              /\ result'[t] \in
                    {"NPM_INSTALL_FAILED::npm install failed. Check logs for details.",
                     "NPM_INSTALL_FAILED::npm install failed. Details: up to date npm ERR! E404"}
              /\ mine'[t] = None /\ ~ready'[t]
              /\ npid' = npid /\ procs' = procs
              /\ child' = child /\ job' = job
              /\ child' = None /\ job' = None]_vars

\* C20: launch has returned NPM_INSTALL_FAILED with npm's output in it.
C20_Witness ==
    \E t \in LaunchTasks :
        /\ pc[t] = "done"
        /\ result[t] = "NPM_INSTALL_FAILED::npm install failed. Details: up to date npm ERR! E404"
        /\ child = None
        /\ npid = 0

\* The mutexes of ServerState whose guard task t has alive.
Holding(t) == {l \in Locks : lkHeld[l] = t}

\* C18: a guard of ServerState.child or ServerState.job is alive only from
\* its lock() to the end of the one check, take or replace it serves, one
\* guard at a time, and never while its task is parked in an await; so a task
\* waiting in lock() never waits for a holder that is suspended.
C18_NoGuardAcrossAwait ==
    /\ \A t \in Tasks :
          /\ lkPc[t] \in AwaitPositions \cup {"idle"} => Holding(t) = {}
          /\ Holding(t) = IF lkPc[t] \in {"l_check", "l_store", "s_take"} THEN {"child"}
                          ELSE IF lkPc[t] \in {"l_job", "s_job"} THEN {"job"}
                          ELSE {}
    /\ \A t \in Tasks, l \in Locks :
          (Wanted(lkPc[t]) = l /\ lkHeld[l] # "free") =>
              lkPc[lkHeld[l]] \notin AwaitPositions

\* C18: one task waits in lock() for the child mutex, a second one holds it
\* for its replace, a third one is parked in terminate_process_tree.
C18_Witness ==
    \E t, u, v \in Tasks :
        /\ Wanted(lkPc[t]) = "child"
        /\ lkHeld["child"] = u /\ lkPc[u] = "l_store"
        /\ lkPc[v] = "s_term"

\* The lines of reader r among the chunks of the log file, in file order.
SinkLinesOf(r) ==
    LET FromR(c) == \E i \in 1..MaxLines : c = StreamLines[r][i]
    IN  SelectSeq(lgSink, FromR)

\* The lines reader r has written so far, in the order its pipe carried them.
WrittenBy(r) ==
    SubSeq(StreamLines[r], 1, IF lgPc[r] = "newline" THEN lgNext[r] ELSE lgNext[r] - 1)

C21_ForceSkipsInstall ==
    [][\A t \in LaunchTasks :
          /\ pc'[t] \in {"install", "install_failed"} => ~force'[t]
          /\ (force'[t] /\ ~force[t]) => (pc[t] = "prep" /\ pc'[t] = "start")
          /\ (force[t] /\ pc'[t] # pc[t]) =>
                (pc[t] = "start" /\ pc'[t] \in {"done", "job", "store"})]_vars

\* C21: a forced launch is past the install branch, at determine_port.
C21_Witness ==
    \E t \in LaunchTasks : force[t] /\ pc[t] = "start" /\ mine[t] = None

\* C22: "server-ready" is emitted only by a launch whose own wait_for_health
\* returned true, once in that attempt (the launch returns Ok right after it),
\* and never by a launch whose poll failed and went on to shutdown, nor by one
\* that returned Ok because a child was already stored.
C22_ReadyOnlyAfterHealth ==
    [][\A t \in LaunchTasks :
          /\ (ready'[t] /\ ~ready[t]) =>
                /\ pc[t] = "health"
                /\ pc'[t] = "done"
                /\ result'[t] = "Ok"
                /\ mine[t] # None
          /\ ready[t] =>
                /\ pc[t] = "done"
                /\ result[t] = "Ok"
                /\ mine[t] # None
                /\ pc'[t] \in {"done", "idle"}
          /\ (InShutdown(t) \/ result[t] = "ErrHealth") => ~ready[t]
          /\ (pc[t] = "check" /\ pc'[t] = "done") => ~ready'[t]]_vars

\* C22: a launch has emitted "server-ready" and returned Ok.
C22_Witness ==
    \E t \in LaunchTasks : ready[t] /\ result[t] = "Ok" /\ mine[t] # None

\* C23: start returns Ok from its already-running check only while the process
\* behind the stored child handle is running; once that process has exited on
\* its own, the next start does not stop at the check.
C23_AlreadyRunningOnlyWhileAlive ==
    [][\A t \in LaunchTasks :
          (pc[t] = "idle" /\ pc'[t] = "done" /\ result'[t] = "Ok") =>
              (child # None /\ procs[child].st = "alive")]_vars

\* C24: once the window-close shutdown has returned (app.exit(0) follows), a
\* process spawned by a launch that was in flight is either terminated or is
\* the child held in ServerState.
C24_NoChildLeftUntracked ==
    exited =>
        \A t \in LaunchTasks :
            (mine[t] # None /\ procs[mine[t]].st = "alive") => child = mine[t]

\* C25: when update_vendor(attempt_overwrite = true) has run `git stash` and it
\* exited with success, what the caller gets is an UpdateResponse with
\* stash_used = true, whatever the pull, the diff and the log write did.
C25_StashReportedInEveryResult ==
    (uPc = "done" /\ uArg /\ uStashOut = "ok") =>
        (uRet.kind = "ok" /\ uRet.stash_used)

====
